---- MODULE Spec2Model ----
(***************************************************************************)
(* A model of CircularBuffer<Unit> (src/CircularBuffer.h) as it is used by *)
(* src/main.cpp, i.e. instantiated with Unit = uint8_t.                    *)
(*                                                                         *)
(* A buffer object is a record whose fields carry the names of the data    *)
(* members.  Member functions are operators from the object (and the       *)
(* arguments) to the returned value and the object after the call.  The    *)
(* mutex is held from the lock's construction to the return of the call,   *)
(* so each call is one atomic action.                                      *)
(*                                                                         *)
(* Units are tagged with the number of the order in which they were        *)
(* handed to insert_units, so that every stored unit is distinguishable;   *)
(* memcpy does not look at the values it copies.                           *)
(***************************************************************************)
EXTENDS Integers, Sequences, FiniteSets, TLC

VARIABLES
    cb,         \* the buffer under test (main.cpp: cb)
    dst,        \* a second buffer, the target of copy-assignment
    inserted,   \* every unit accepted by a successful insert_units on cb
    extracted,  \* every unit returned by a successful extract_units on cb
    call,       \* the last call made and what it returned
    log,        \* the calls made so far (recorded by the logging actions only)
    m_buffer_lock,  \* the mutex of cb: the thread that owns it, or NoThread
    thread      \* for each thread, the call it is making on cb and how far it is

vars == <<cb, dst, inserted, extracted, call, log, m_buffer_lock, thread>>

threadvars == <<m_buffer_lock, thread>>

----------------------------------------------------------------------------
(* Bounds *)

MaxCap == 4         \* largest capacity of cb and dst
MaxTotal == 7       \* most units ever accepted by cb in one behaviour
MaxCalls == 5       \* most calls recorded in log
NumThreads == 2     \* threads calling into cb
MaxThreadCap == 3   \* largest capacity of a cb shared by threads
MaxThreadTotal == 4 \* most units ever accepted by a cb shared by threads

(* sizeof(Unit) for the instantiation CircularBuffer<uint8_t> *)
UnitSize == 1

(* the value of a unit that was never written (new Unit[n] leaves the      *)
(* storage uninitialized) or of a read outside the array; no unit handed   *)
(* to insert_units carries it                                              *)
Indeterminate == 0

----------------------------------------------------------------------------
(* Memory blocks: functions from 0..n-1 to units *)

Block(n) == [i \in 0 .. n - 1 |-> Indeterminate]

ArrToSeq(a, n) == [i \in 1 .. n |-> a[i - 1]]

(* ::memcpy(dstblk + dp, srcblk + sp, n units) *)
memcpy(dstblk, dp, srcblk, sp, n) ==
    [i \in DOMAIN dstblk |->
        IF i >= dp /\ i < dp + n
        THEN IF (sp + (i - dp)) \in DOMAIN srcblk
             THEN srcblk[sp + (i - dp)]
             ELSE Indeterminate
        ELSE dstblk[i]]

(* does an access of n units at offset p leave the block? *)
outside(blk, p, n) ==
    \/ n < 0
    \/ n > 0 /\ \E i \in p .. p + n - 1 : i \notin DOMAIN blk

----------------------------------------------------------------------------
(* CircularBuffer.  Besides the data members an object carries two flags:   *)
(* overrun, set when a memcpy of the object touched memory outside its     *)
(* storage, and aborted, set when an assert of the object failed.  The     *)
(* program's behaviour is not defined after either, and no call follows.   *)

reset(self) == [self EXCEPT !.m_buffer_head = 0, !.m_buffer_tail = 0]

CircularBuffer(unit_count) ==
    reset([m_unit_size   |-> UnitSize,
           m_unit_count  |-> unit_count,
           m_buffer_head |-> 0,
           m_buffer_tail |-> 0,
           m_buffer      |-> Block(unit_count),
           m_used_slots  |-> 0,
           overrun       |-> FALSE,
           aborted       |-> FALSE])

(* Unit* p = m_buffer.get() + offset: the unit index p points at *)
get_buffer_head(self) == self.m_buffer_head * self.m_unit_size

get_buffer_tail(self) == self.m_buffer_tail * self.m_unit_size

used_space(self) == self.m_used_slots

free_space(self) == self.m_unit_count - self.m_used_slots

(* memcpy(p, data + d, n * m_unit_size) into the storage, p a unit index *)
store(self, p, data, d, n) ==
    [self EXCEPT !.m_buffer = memcpy(self.m_buffer, p, data, d, n),
                 !.overrun = self.overrun \/ outside(self.m_buffer, p, n)]

(* what a call hands back: the returned bool and the object afterwards *)
returns(ret, self) == [ret |-> ret, self |-> self]

----------------------------------------------------------------------------
(* insert_units(data, unit_count); data is a block of unit_count units *)

(* insert_before_tail without m_used_slots += unit_count *)
insert_before_tail_no_used(self, data, unit_count) ==
    LET p == get_buffer_head(self)
        left_in_buffer == self.m_buffer_tail - self.m_buffer_head
    IN  IF left_in_buffer < unit_count
        THEN returns(FALSE, self)
        ELSE LET s1 == store(self, p, data, 0, unit_count)
             IN  returns(TRUE, [s1 EXCEPT !.m_buffer_head = @ + unit_count])

(* head < tail: the free region runs from head to tail *)
insert_before_tail(self, data, unit_count) ==
    LET p == get_buffer_head(self)
        left_in_buffer == self.m_buffer_tail - self.m_buffer_head
    IN  IF left_in_buffer < unit_count
        THEN returns(FALSE, self)
        ELSE LET s1 == store(self, p, data, 0, unit_count)
             IN  returns(TRUE,
                    [s1 EXCEPT !.m_used_slots = @ + unit_count,
                               !.m_buffer_head = @ + unit_count])

(* insert_to_end copying to where the tail is *)
insert_to_end_at_tail(self, data, unit_count) ==
    LET p == get_buffer_tail(self)
        s1 == store(self, p, data, 0, unit_count)
    IN  returns(TRUE,
            [s1 EXCEPT !.m_used_slots = @ + unit_count,
                       !.m_buffer_head = @ + unit_count])

(* head >= tail and the units fit between head and the end of the storage *)
insert_to_end(self, data, unit_count) ==
    LET p == get_buffer_head(self)
        s1 == store(self, p, data, 0, unit_count)
    IN  returns(TRUE,
            [s1 EXCEPT !.m_used_slots = @ + unit_count,
                       !.m_buffer_head = @ + unit_count])

(* insert_wrapped with the collision test made after the first copy *)
insert_wrapped_checks_late(self, data, unit_count) ==
    LET left_in_buffer == self.m_unit_count - self.m_buffer_head
        s1 == store(self, get_buffer_head(self), data, 0, left_in_buffer)
        s2 == [s1 EXCEPT !.m_used_slots = @ + left_in_buffer]
        rest == unit_count - left_in_buffer
        s3 == [s2 EXCEPT !.m_buffer_head = 0]
        s4 == store(s3, get_buffer_head(s3), data, left_in_buffer, rest)
    IN  IF (left_in_buffer + (self.m_buffer_tail - 1)) < unit_count
        THEN returns(FALSE, s2)
        ELSE returns(TRUE,
                [s4 EXCEPT !.m_used_slots = @ + rest,
                           !.m_buffer_head = @ + rest])

(* head >= tail and the units do not fit before the end of the storage *)
insert_wrapped(self, data, unit_count) ==
    LET left_in_buffer == self.m_unit_count - self.m_buffer_head
    IN  IF (left_in_buffer + (self.m_buffer_tail - 1)) < unit_count
        THEN returns(FALSE, self)
        ELSE LET s1 == store(self, get_buffer_head(self), data, 0, left_in_buffer)
                 s2 == [s1 EXCEPT !.m_used_slots = @ + left_in_buffer]
                 rest == unit_count - left_in_buffer
                 d == left_in_buffer
                 s3 == [s2 EXCEPT !.m_buffer_head = 0]
                 s4 == store(s3, get_buffer_head(s3), data, d, rest)
             IN  returns(TRUE,
                    [s4 EXCEPT !.m_used_slots = @ + rest,
                               !.m_buffer_head = @ + rest])

(* insert_fs taken for the capacity, whatever is in use *)
insert_fs_ignores_used(self) == self.m_unit_count

(* the free space the call compares the request with *)
insert_fs(self) == self.m_unit_count - self.m_used_slots

(* insert_units without the test for a buffer of no units *)
insert_units_no_capacity_test(self, data, unit_count) ==
    IF insert_fs(self) < unit_count
    THEN returns(FALSE, self)
    ELSE IF self.m_buffer_head < self.m_buffer_tail
    THEN insert_before_tail(self, data, unit_count)
    ELSE IF self.m_unit_count - self.m_buffer_head >= unit_count
    THEN insert_to_end(self, data, unit_count)
    ELSE insert_wrapped(self, data, unit_count)

insert_units(self, data, unit_count) ==
    IF self.m_unit_count = 0
    THEN returns(FALSE, self)
    ELSE IF insert_fs(self) < unit_count
    THEN returns(FALSE, self)
    ELSE IF self.m_buffer_head < self.m_buffer_tail
    THEN insert_before_tail(self, data, unit_count)
    ELSE IF self.m_unit_count - self.m_buffer_head >= unit_count
    THEN insert_to_end(self, data, unit_count)
    ELSE insert_wrapped(self, data, unit_count)

----------------------------------------------------------------------------
(* extract_units(data, unit_count); data is a block of unit_count units    *)
(* that the call fills.  What comes back is the bool, the object and data. *)

yields(ret, self, data) == [ret |-> ret, self |-> self, data |-> data]

(* memcpy(data + d, p, n * m_unit_size) out of the storage, p a unit index *)
load(self, data, d, p, n) == memcpy(data, d, self.m_buffer, p, n)

touched(self, p, n) ==
    [self EXCEPT !.overrun = self.overrun \/ outside(self.m_buffer, p, n)]

(* extract_wrapped without data += data_count before the second copy *)
extract_wrapped_same_offset(self, data, unit_count) ==
    LET p == get_buffer_tail(self)
        data_count == self.m_unit_count - self.m_buffer_tail
        d1 == load(self, data, 0, p, data_count)
        rest == unit_count - data_count
        s1 == [touched(self, p, data_count) EXCEPT
                    !.m_used_slots = @ - data_count,
                    !.m_buffer_tail = 0]
        p2 == get_buffer_tail(s1)
        d2 == load(s1, d1, 0, p2, rest)
    IN  yields(TRUE,
            [touched(s1, p2, rest) EXCEPT !.m_used_slots = @ - rest,
                                          !.m_buffer_tail = @ + rest],
            d2)

(* head < tail and the units asked for run past the end of the storage *)
extract_wrapped(self, data, unit_count) ==
    LET p == get_buffer_tail(self)
        data_count == self.m_unit_count - self.m_buffer_tail
        d1 == load(self, data, 0, p, data_count)
        rest == unit_count - data_count
        s1 == [touched(self, p, data_count) EXCEPT
                    !.m_used_slots = @ - data_count,
                    !.m_buffer_tail = 0]
        p2 == get_buffer_tail(s1)
        d2 == load(s1, d1, data_count, p2, rest)
    IN  yields(TRUE,
            [touched(s1, p2, rest) EXCEPT !.m_used_slots = @ - rest,
                                          !.m_buffer_tail = @ + rest],
            d2)

(* one block of unit_count units starting at tail *)
extract_block(self, data, unit_count) ==
    LET p == get_buffer_tail(self)
    IN  yields(TRUE,
            [touched(self, p, unit_count) EXCEPT
                    !.m_used_slots = @ - unit_count,
                    !.m_buffer_tail = @ + unit_count],
            load(self, data, 0, p, unit_count))

(* head >= tail: the units held between tail and head *)
extract_data_count(self) == self.m_buffer_head - self.m_buffer_tail

extract_units(self, data, unit_count) ==
    IF self.m_unit_count = 0
    THEN yields(FALSE, self, data)
    ELSE IF self.m_used_slots < unit_count
    THEN yields(FALSE, self, data)
    ELSE IF self.m_buffer_head < self.m_buffer_tail
    THEN IF self.m_unit_count - self.m_buffer_tail < unit_count
         THEN extract_wrapped(self, data, unit_count)
         ELSE extract_block(self, data, unit_count)
    ELSE IF extract_data_count(self) < unit_count
    THEN yields(FALSE, self, data)
    ELSE extract_block(self, data, unit_count)

----------------------------------------------------------------------------
(* transfer(source), the body of the copy constructor and of operator= *)

(* assert(source.m_unit_size == m_unit_size ||                             *)
(*        source.m_unit_count <= m_unit_count)                             *)
transfer_assert(self, source) ==
    \/ source.m_unit_size = self.m_unit_size
    \/ source.m_unit_count <= self.m_unit_count

(* memcpy(m_buffer.get() + p, source.m_buffer.get() + sp, n units) *)
copy_in(self, p, source, sp, n) ==
    [self EXCEPT !.m_buffer = memcpy(self.m_buffer, p, source.m_buffer, sp, n),
                 !.overrun = \/ self.overrun
                             \/ outside(self.m_buffer, p, n)
                             \/ outside(source.m_buffer, sp, n)]

transfer_linear(self, source) ==
    LET tail_offset == source.m_buffer_tail * source.m_unit_size
    IN  copy_in(self, 0, source, tail_offset, source.m_used_slots)

transfer_double(self, source) ==
    LET tail_offset == source.m_buffer_tail * source.m_unit_size
        unit_count == source.m_unit_count - source.m_buffer_tail
        s1 == copy_in(self, 0, source, tail_offset, unit_count)
    IN  copy_in(s1, unit_count, source, 0, source.m_buffer_head)

transfer_nonempty(source) == source.m_buffer_head # source.m_buffer_tail

transfer(self, source) ==
    IF transfer_nonempty(source)
    THEN IF ~transfer_assert(self, source)
         THEN [self EXCEPT !.aborted = TRUE]
         ELSE LET s1 == IF source.m_buffer_head > source.m_buffer_tail
                        THEN transfer_linear(self, source)
                        ELSE transfer_double(self, source)
              IN  [s1 EXCEPT !.m_buffer_tail = 0,
                             !.m_used_slots = source.m_used_slots,
                             !.m_buffer_head = source.m_used_slots]
    ELSE self

----------------------------------------------------------------------------
(* The callers.  Each action is one call on cb (or one assignment to dst). *)

Defined(self) == ~self.overrun /\ ~self.aborted

(* the units handed to the next insert_units call, tagged in order *)
Data(k) == [i \in 0 .. k - 1 |-> Len(inserted) + i + 1]

Called(op, k, ret, data, pre) ==
    [op |-> op, unit_count |-> k, ret |-> ret, data |-> data, pre |-> pre]

(* the threads that call into cb; the mutex starts unlocked *)
Threads == 1 .. NumThreads

NoThread == 0

(* a thread outside a call keeps what its last call returned: the bool of  *)
(* insert_units and extract_units, the size_t of used_space and free_space *)
Idle(ret, units) ==
    [pc |-> "idle", op |-> "none", unit_count |-> 0, data |-> << >>,
     pre |-> << >>, ret |-> ret, units |-> units]

NoThreads ==
    /\ m_buffer_lock = NoThread
    /\ thread = [t \in Threads |-> Idle(TRUE, 0)]

(* cb and dst freshly constructed with the given capacities *)
Constructed(cbCaps, dstCaps) ==
    /\ \E c \in cbCaps : cb = CircularBuffer(c)
    /\ \E c \in dstCaps : dst = CircularBuffer(c)
    /\ inserted = << >>
    /\ extracted = << >>
    /\ call = Called("none", 0, TRUE, << >>, cb)
    /\ log = << >>
    /\ NoThreads

Init == Constructed(0 .. MaxCap, {0})

(* cb.insert_units(data, k) *)
DoInsert(k) ==
    LET r == insert_units(cb, Data(k), k)
    IN  /\ Defined(cb)
        /\ cb' = r.self
        /\ inserted' = IF r.ret THEN inserted \o ArrToSeq(Data(k), k) ELSE inserted
        /\ call' = Called("insert", k, r.ret, ArrToSeq(Data(k), k), cb)
        /\ UNCHANGED <<extracted, dst, threadvars>>

(* cb.extract_units(data, k) into a fresh block of k units *)
DoExtract(k) ==
    LET r == extract_units(cb, Block(k), k)
    IN  /\ Defined(cb)
        /\ cb' = r.self
        /\ extracted' = IF r.ret THEN extracted \o ArrToSeq(r.data, k) ELSE extracted
        /\ call' = Called("extract", k, r.ret, ArrToSeq(r.data, k), cb)
        /\ UNCHANGED <<inserted, dst, threadvars>>

(* the counts a caller asks for: nothing, any part of the capacity, too much *)
Counts == 0 .. cb.m_unit_count + 1

InsertUnits ==
    \E k \in Counts :
        /\ insert_units(cb, Data(k), k).ret => Len(inserted) + k <= MaxTotal
        /\ DoInsert(k)
        /\ UNCHANGED log

ExtractUnits ==
    \E k \in Counts : DoExtract(k) /\ UNCHANGED log

(* cb.reset() *)
Reset ==
    /\ Defined(cb)
    /\ cb' = reset(cb)
    /\ call' = Called("reset", 0, TRUE, << >>, cb)
    /\ UNCHANGED <<dst, inserted, extracted, log, threadvars>>

(* dst = cb *)
CopyAssign ==
    /\ Defined(cb) /\ Defined(dst)
    /\ dst' = transfer(dst, cb)
    /\ call' = Called("copy", 0, TRUE, << >>, dst)
    /\ UNCHANGED <<cb, inserted, extracted, log, threadvars>>

Next == InsertUnits \/ ExtractUnits

Spec == Init /\ [][Next]_vars

NextReset == InsertUnits \/ ExtractUnits \/ Reset

SpecReset == Init /\ [][NextReset]_vars

InitCopy == Constructed(0 .. MaxCap, 0 .. MaxCap)

NextCopy == InsertUnits \/ ExtractUnits \/ CopyAssign

SpecCopy == InitCopy /\ [][NextCopy]_vars

(* Callers whose calls are recorded, at most MaxCalls of them *)

Logged(A) == Len(log) < MaxCalls /\ A /\ log' = Append(log, call')

InitWrap == Constructed(1 .. MaxCap, {0})

WrapInsert == \E k \in 1 .. cb.m_unit_count : Logged(DoInsert(k))

WrapExtract == \E k \in 1 .. cb.m_unit_count : Logged(DoExtract(k))

NextWrap == WrapInsert \/ WrapExtract

SpecWrap == InitWrap /\ [][NextWrap]_vars

(* The caller of the scenario on a buffer of ten units *)

ScenarioCounts == {3, 5, 7, 10}

InitScenario == Constructed({10}, {0})

ScenarioInsert == \E k \in ScenarioCounts : Logged(DoInsert(k))

ScenarioExtract == \E k \in ScenarioCounts : Logged(DoExtract(k))

NextScenario == ScenarioInsert \/ ScenarioExtract

SpecScenario == InitScenario /\ [][NextScenario]_vars

----------------------------------------------------------------------------
(* Properties *)

(* the last call was op on a buffer of non-zero capacity *)
After(op) == call.op = op /\ cb.m_unit_count > 0

(* the units cb holds according to its history: accepted and not yet returned *)
Pending == SubSeq(inserted, Len(extracted) + 1, Len(inserted))

(* the occupied region: used units from tail on, wrapping at the capacity *)
Held(self) ==
    [i \in 1 .. self.m_used_slots |->
        self.m_buffer[(self.m_buffer_tail + i - 1) % self.m_unit_count]]

(* C1: an insert_units call on a buffer of capacity C > 0 returns false    *)
(* if and only if C - used < count at the time of the call.                *)
InsertRejectsIffNoRoom ==
    After("insert") =>
        (call.ret = FALSE <=> free_space(call.pre) < call.unit_count)

(* C2: an extract_units call on a buffer of capacity C > 0 returns false   *)
(* if and only if used < count at the time of the call.                    *)
ExtractRejectsIffTooFew ==
    After("extract") =>
        (call.ret = FALSE <=> used_space(call.pre) < call.unit_count)

(* C3: the units returned by the successful extracts are, in order, a      *)
(* prefix of the units accepted by the successful inserts, and the units   *)
(* held in the occupied region are exactly the rest.                       *)
FifoRoundTrip ==
    cb.m_unit_count > 0 =>
        /\ Len(extracted) <= Len(inserted)
        /\ extracted = SubSeq(inserted, 1, Len(extracted))
        /\ Held(cb) = Pending

(* C3 witness: a successful extract took its units in two copies, from the *)
(* end of the storage and from its start, and left units behind.           *)
FifoRoundTripWitness ==
    /\ After("extract") /\ call.ret
    /\ call.pre.m_buffer_head < call.pre.m_buffer_tail
    /\ call.pre.m_unit_count - call.pre.m_buffer_tail < call.unit_count
    /\ call.pre.m_buffer_tail < call.pre.m_unit_count
    /\ cb.m_used_slots > 0

(* C4: a call that returns false leaves head, tail, used and the storage   *)
(* as they were, and a rejected extract leaves the caller's block alone.   *)
RejectedCallMutatesNothing ==
    (call.op \in {"insert", "extract"} /\ call.ret = FALSE) =>
        /\ cb = call.pre
        /\ call.op = "extract" =>
                call.data = ArrToSeq(Block(call.unit_count), call.unit_count)

(* C4 witness: an insert was turned down on the wrapping path, after the   *)
(* free-space test had let it through, with room left before the end.      *)
RejectedCallWitness ==
    /\ After("insert") /\ call.ret = FALSE
    /\ free_space(call.pre) >= call.unit_count
    /\ call.pre.m_buffer_head < call.pre.m_unit_count
    /\ call.pre.m_used_slots > 0

(* C5: 0 <= used_space() <= capacity after any sequence of insert_units    *)
(* and extract_units calls.                                                *)
CapacityInvariant ==
    /\ 0 <= used_space(cb)
    /\ used_space(cb) <= cb.m_unit_count

(* C5 witness: the buffer is full and its contents wrap. *)
CapacityWitness ==
    /\ After("insert") /\ call.ret
    /\ used_space(cb) = cb.m_unit_count
    /\ cb.m_buffer_tail > 0 /\ cb.m_buffer_tail < cb.m_unit_count

(* C6: on a buffer of capacity C > 0, 0 <= head < C and 0 <= tail < C      *)
(* after any sequence of insert_units, extract_units and reset calls.      *)
CursorsInRange ==
    cb.m_unit_count > 0 =>
        /\ 0 <= cb.m_buffer_head /\ cb.m_buffer_head < cb.m_unit_count
        /\ 0 <= cb.m_buffer_tail /\ cb.m_buffer_tail < cb.m_unit_count

(* C7: right after reset(), head = tail = 0, used_space() = 0 and          *)
(* free_space() = capacity, every insert of at most capacity units         *)
(* succeeds and every extract of at least one unit fails.                  *)
ResetEmpties ==
    After("reset") =>
        /\ cb.m_buffer_head = 0 /\ cb.m_buffer_tail = 0
        /\ used_space(cb) = 0
        /\ free_space(cb) = cb.m_unit_count
        /\ \A k \in 0 .. cb.m_unit_count : insert_units(cb, Data(k), k).ret
        /\ \A k \in 1 .. cb.m_unit_count + 1 :
                ~extract_units(cb, Block(k), k).ret

(* the recorded calls begin with the given calls, on a fresh buffer *)
Began(calls) ==
    /\ Len(log) >= Len(calls)
    /\ \A i \in 1 .. Len(calls) :
            log[i].op = calls[i][1] /\ log[i].unit_count = calls[i][2]

(* the first insert of the wrap-around sequence wraps: C - k1 < k2 <= C *)
MustWrap(k1, k2) ==
    cb.m_unit_count - k1 < k2 /\ k2 <= cb.m_unit_count

(* C8: for 1 <= k1 <= C and C - k1 < k2 <= C, on a fresh buffer the calls  *)
(* insert k1, extract k1, insert k2 all succeed, and an extract of k2      *)
(* after them succeeds and returns the units of the wrapped insert.        *)
WrapAroundCorrect ==
    \A k1, k2 \in 1 .. cb.m_unit_count :
        MustWrap(k1, k2) =>
            /\ Began(<< <<"insert", k1>>, <<"extract", k1>>, <<"insert", k2>> >>)
                    => log[1].ret /\ log[2].ret /\ log[3].ret
            /\ Began(<< <<"insert", k1>>, <<"extract", k1>>, <<"insert", k2>>,
                        <<"extract", k2>> >>)
                    => log[4].ret /\ log[4].data = log[3].data

(* the calls of the scenario on a buffer of ten units: the call, the used  *)
(* space after it, the units handed in or expected back                    *)
Scenario ==
    << [op |-> "insert",  used |-> 3, data |-> <<1, 2, 3>>],
       [op |-> "insert",  used |-> 8, data |-> <<4, 5, 6, 7, 8>>],
       [op |-> "extract", used |-> 3, data |-> <<1, 2, 3, 4, 5>>],
       [op |-> "insert",  used |-> 10, data |-> <<9, 10, 11, 12, 13, 14, 15>>],
       [op |-> "extract", used |-> 0,
        data |-> <<6, 7, 8, 9, 10, 11, 12, 13, 14, 15>>] >>

(* the recorded calls are the first n calls of the scenario *)
Played(n) ==
    /\ Len(log) = n
    /\ \A i \in 1 .. n :
            /\ log[i].op = Scenario[i].op
            /\ log[i].unit_count = Len(Scenario[i].data)

(* C9: on a fresh buffer of capacity 10 every call of the scenario         *)
(* succeeds, with used space 3, 8, 3 after the first three, the extracts   *)
(* returning [1..5] and [6..15].                                           *)
ScenarioSucceeds ==
    \A n \in 1 .. Len(Scenario) :
        Played(n) =>
            /\ log[n].ret
            /\ log[n].data = Scenario[n].data
            /\ used_space(cb) = Scenario[n].used

(* C10: after dst = cb with cb holding n >= 1 units and dst of capacity    *)
(* at least n, dst has used_space() = n and extracting n units from dst    *)
(* succeeds and returns the units cb holds, in FIFO order.                 *)
CopyReproducesSource ==
    LET n == used_space(cb)
        r == extract_units(dst, Block(n), n)
    IN  (After("copy") /\ n >= 1 /\ call.pre.m_unit_count >= n) =>
            /\ used_space(dst) = n
            /\ r.ret
            /\ ArrToSeq(r.data, n) = Pending


(* C11: dst = cb with cb holding more units than dst has capacity for is   *)
(* stopped by the assertion before any unit is written: no write lands     *)
(* outside the storage of dst and used of dst never exceeds its capacity.  *)
CopyFailsFast ==
    /\ ~dst.overrun
    /\ used_space(dst) <= dst.m_unit_count
    /\ (/\ call.op = "copy"
        /\ cb.m_buffer_head # cb.m_buffer_tail
        /\ used_space(cb) > call.pre.m_unit_count)
            => dst.aborted /\ dst.m_buffer = call.pre.m_buffer

(* C12: on a buffer of capacity 0 every insert_units and extract_units     *)
(* call returns false, whatever the count and whatever calls (reset        *)
(* included) came before, and used_space() and free_space() return 0.      *)
ZeroCapacityRejectsAll ==
    cb.m_unit_count = 0 =>
        /\ call.op \in {"insert", "extract"} => call.ret = FALSE
        /\ \A k \in Counts : ~insert_units(cb, Data(k), k).ret
        /\ \A k \in Counts : ~extract_units(cb, Block(k), k).ret
        /\ used_space(cb) = 0
        /\ free_space(cb) = 0

(* C12 witness: an insert of no units into the buffer of capacity 0 was    *)
(* turned down.                                                            *)
ZeroCapacityWitness ==
    /\ cb.m_unit_count = 0
    /\ call.op = "insert" /\ call.unit_count = 0 /\ call.ret = FALSE

(* C15: on a buffer of capacity C > 0, after any insert_units,             *)
(* extract_units and reset calls, head - tail - used is a multiple of C,   *)
(* and head = tail only when used = 0 or used = C.                         *)
OccupiedRegion ==
    cb.m_unit_count > 0 =>
        /\ (cb.m_buffer_head - cb.m_buffer_tail - cb.m_used_slots)
                % cb.m_unit_count = 0
        /\ cb.m_buffer_head = cb.m_buffer_tail
                => cb.m_used_slots \in {0, cb.m_unit_count}

(* C16: after dst = cb, for any cb that fits (an empty one included), dst  *)
(* has the used_space() of cb and whatever can be extracted from dst are   *)
(* units of cb, none of those dst held before.                             *)
CopyDestroysOldData ==
    (After("copy") /\ used_space(cb) <= call.pre.m_unit_count) =>
        /\ used_space(dst) = used_space(cb)
        /\ \A k \in 1 .. dst.m_unit_count :
                LET r == extract_units(dst, Block(k), k)
                IN  r.ret => /\ k <= Len(Pending)
                             /\ ArrToSeq(r.data, k) = SubSeq(Pending, 1, k)

(* the slots of the occupied region of a buffer *)
Occupied(self) ==
    {(self.m_buffer_tail + i) % self.m_unit_count :
        i \in 0 .. self.m_used_slots - 1}

NeverStuck ==
    cb.m_unit_count > 0 =>
        \E k \in 1 .. cb.m_unit_count :
            \/ insert_units(cb, Data(k), k).ret
            \/ extract_units(cb, Block(k), k).ret

----------------------------------------------------------------------------
(* Callers of a CircularBuffer<Unit> whose Unit takes more than one byte *)

MaxUnitSize == 2    \* largest sizeof(Unit)

(* CircularBuffer<Unit>(unit_count) with sizeof(Unit) = size *)
SizedBuffer(unit_count, size) ==
    [CircularBuffer(unit_count) EXCEPT !.m_unit_size = size]

InitUnits ==
    /\ \E c \in 0 .. MaxCap, size \in 1 .. MaxUnitSize :
            cb = SizedBuffer(c, size)
    /\ dst = CircularBuffer(0)
    /\ inserted = << >>
    /\ extracted = << >>
    /\ call = Called("none", 0, TRUE, << >>, cb)
    /\ log = << >>
    /\ NoThreads

SpecUnits == InitUnits /\ [][Next]_vars

(* C20: whatever the size of a unit, the slot a cursor addresses is the    *)
(* slot whose index is the cursor, and no copy made by insert_units or     *)
(* extract_units touches a unit outside slots 0 .. C-1 of the storage.     *)
StorageBounds ==
    cb.m_unit_count > 0 =>
        /\ cb.m_buffer_head < cb.m_unit_count
                => get_buffer_head(cb) = cb.m_buffer_head
        /\ cb.m_buffer_tail < cb.m_unit_count
                => get_buffer_tail(cb) = cb.m_buffer_tail
        /\ ~cb.overrun

----------------------------------------------------------------------------
(* Threads calling into one cb.  A call is made in steps: the thread       *)
(* enters the function, constructs the BufferLock (which blocks while the  *)
(* mutex is owned), runs the body and returns, the BufferLock going out of *)
(* scope.  A call that copies in two segments stops once between them.     *)

(* will insert_units copy in two segments? *)
insert_in_two(self, unit_count) ==
    /\ insert_fs(self) >= unit_count
    /\ ~(self.m_buffer_head < self.m_buffer_tail)
    /\ self.m_unit_count - self.m_buffer_head < unit_count
    /\ ~((self.m_unit_count - self.m_buffer_head
            + (self.m_buffer_tail - 1)) < unit_count)

(* insert_units up to the first copy and its m_used_slots += *)
insert_first(self, data) ==
    LET left_in_buffer == self.m_unit_count - self.m_buffer_head
        s1 == store(self, get_buffer_head(self), data, 0, left_in_buffer)
    IN  [s1 EXCEPT !.m_used_slots = @ + left_in_buffer]

(* insert_units from m_buffer_head = 0 on; head is still where it was *)
insert_second(self, data, unit_count) ==
    LET left_in_buffer == self.m_unit_count - self.m_buffer_head
        rest == unit_count - left_in_buffer
        s3 == [self EXCEPT !.m_buffer_head = 0]
        s4 == store(s3, get_buffer_head(s3), data, left_in_buffer, rest)
    IN  [s4 EXCEPT !.m_used_slots = @ + rest, !.m_buffer_head = @ + rest]

(* will extract_units copy in two segments? *)
extract_in_two(self, unit_count) ==
    /\ ~(self.m_used_slots < unit_count)
    /\ self.m_buffer_head < self.m_buffer_tail
    /\ self.m_unit_count - self.m_buffer_tail < unit_count

(* extract_units up to the first copy and its m_used_slots -= *)
extract_first(self, data) ==
    LET p == get_buffer_tail(self)
        data_count == self.m_unit_count - self.m_buffer_tail
    IN  [self |-> [touched(self, p, data_count) EXCEPT
                        !.m_used_slots = @ - data_count],
         data |-> load(self, data, 0, p, data_count)]

(* extract_units from m_buffer_tail = 0 on; tail is still where it was *)
extract_second(self, data, unit_count) ==
    LET data_count == self.m_unit_count - self.m_buffer_tail
        rest == unit_count - data_count
        s1 == [self EXCEPT !.m_buffer_tail = 0]
        p2 == get_buffer_tail(s1)
    IN  [self |-> [touched(s1, p2, rest) EXCEPT !.m_used_slots = @ - rest,
                                                !.m_buffer_tail = @ + rest],
         data |-> load(s1, data, data_count, p2, rest)]

(* a mutex that lets every thread past *)
can_lock_always(owner) == TRUE

(* BufferLock lock(m_buffer_lock) gets past the mutex only when it is free *)
can_lock(owner) == owner = NoThread

(* a lock that is kept when insert_units or extract_units returns false *)
leave_holding_on_failure(t, op, ret) ==
    IF op \in {"insert", "extract"} /\ ~ret THEN t ELSE NoThread

(* the owner of the mutex once thread t has returned ret from op: the      *)
(* BufferLock goes out of scope at every return                            *)
leave(t, op, ret) == NoThread

Ops == {"insert", "extract", "used_space", "free_space"}

ThreadCounts(op) ==
    IF op \in {"insert", "extract"} THEN 0 .. cb.m_unit_count + 1 ELSE {0}

(* thread t returns from its call *)
Return(t, ret, units) ==
    /\ thread' = [thread EXCEPT ![t] = Idle(ret, units)]
    /\ m_buffer_lock' = IF m_buffer_lock = t THEN leave(t, thread[t].op, ret)
                                         ELSE m_buffer_lock

(* thread t enters one of the four functions *)
Enter(t) ==
    /\ Defined(cb)
    /\ thread[t].pc = "idle"
    /\ \E op \in Ops : \E k \in ThreadCounts(op) :
        IF op \in {"insert", "extract"} /\ cb.m_unit_count = 0
        THEN /\ thread' = [thread EXCEPT ![t] = Idle(FALSE, 0)]
             /\ UNCHANGED m_buffer_lock
        ELSE /\ thread' = [thread EXCEPT
                    ![t] = [pc |-> "lock", op |-> op, unit_count |-> k,
                            data |-> << >>, pre |-> << >>, ret |-> TRUE,
                            units |-> 0]]
             /\ UNCHANGED m_buffer_lock
    /\ UNCHANGED <<cb, dst, inserted, extracted, call, log>>

(* thread t constructs its BufferLock *)
Lock(t) ==
    /\ thread[t].pc = "lock"
    /\ can_lock(m_buffer_lock)
    /\ m_buffer_lock' = t
    /\ thread' = [thread EXCEPT ![t].pc = "body"]
    /\ UNCHANGED <<cb, dst, inserted, extracted, call, log>>

(* the body of insert_units, to its return or to the end of the first copy *)
InsertBody(t) ==
    LET k == thread[t].unit_count
        r == insert_units(cb, Data(k), k)
    IN  /\ thread[t].pc = "body" /\ thread[t].op = "insert"
        /\ r.ret => Len(inserted) + k <= MaxThreadTotal
        /\ IF insert_in_two(cb, k)
           THEN /\ cb' = insert_first(cb, Data(k))
                /\ thread' = [thread EXCEPT ![t].pc = "second",
                                            ![t].data = Data(k),
                                            ![t].pre = cb]
                /\ UNCHANGED <<m_buffer_lock, inserted>>
           ELSE /\ cb' = r.self
                /\ inserted' = IF r.ret THEN inserted \o ArrToSeq(Data(k), k)
                                        ELSE inserted
                /\ Return(t, r.ret, 0)
        /\ UNCHANGED <<dst, extracted, call, log>>

(* the second copy of insert_units and its return *)
InsertSecond(t) ==
    LET k == thread[t].unit_count
    IN  /\ thread[t].pc = "second" /\ thread[t].op = "insert"
        /\ cb' = insert_second(cb, thread[t].data, k)
        /\ inserted' = inserted \o ArrToSeq(thread[t].data, k)
        /\ Return(t, TRUE, 0)
        /\ UNCHANGED <<dst, extracted, call, log>>

(* the body of extract_units, to its return or to the end of the first copy *)
ExtractBody(t) ==
    LET k == thread[t].unit_count
        r == extract_units(cb, Block(k), k)
        f == extract_first(cb, Block(k))
    IN  /\ thread[t].pc = "body" /\ thread[t].op = "extract"
        /\ IF extract_in_two(cb, k)
           THEN /\ cb' = f.self
                /\ thread' = [thread EXCEPT ![t].pc = "second",
                                            ![t].data = f.data,
                                            ![t].pre = cb]
                /\ UNCHANGED <<m_buffer_lock, extracted>>
           ELSE /\ cb' = r.self
                /\ extracted' = IF r.ret THEN extracted \o ArrToSeq(r.data, k)
                                         ELSE extracted
                /\ Return(t, r.ret, 0)
        /\ UNCHANGED <<dst, inserted, call, log>>

(* the second copy of extract_units and its return *)
ExtractSecond(t) ==
    LET k == thread[t].unit_count
        r == extract_second(cb, thread[t].data, k)
    IN  /\ thread[t].pc = "second" /\ thread[t].op = "extract"
        /\ cb' = r.self
        /\ extracted' = extracted \o ArrToSeq(r.data, k)
        /\ Return(t, TRUE, 0)
        /\ UNCHANGED <<dst, inserted, call, log>>

(* the body of used_space or free_space: the value read is returned *)
QueryBody(t) ==
    /\ thread[t].pc = "body" /\ thread[t].op \in {"used_space", "free_space"}
    /\ Return(t, TRUE, IF thread[t].op = "used_space" THEN used_space(cb)
                                                      ELSE free_space(cb))
    /\ UNCHANGED <<cb, dst, inserted, extracted, call, log>>

InitThreads == Constructed(0 .. MaxThreadCap, {0})

Enters == \E t \in Threads : Enter(t)

Locks == \E t \in Threads : Lock(t)

InsertBodies == \E t \in Threads : InsertBody(t)

InsertSeconds == \E t \in Threads : InsertSecond(t)

ExtractBodies == \E t \in Threads : ExtractBody(t)

ExtractSeconds == \E t \in Threads : ExtractSecond(t)

QueryBodies == \E t \in Threads : QueryBody(t)

NextThreads ==
    \/ Enters \/ Locks \/ InsertBodies \/ InsertSeconds
    \/ ExtractBodies \/ ExtractSeconds \/ QueryBodies

SpecThreads == InitThreads /\ [][NextThreads]_vars

(* thread t is between the construction of its BufferLock and its return *)
Inside(t) == thread[t].pc \in {"body", "second"}

(* C13: of the threads calling insert_units, extract_units, used_space and *)
(* free_space on one buffer at most one at a time is between acquiring the *)
(* lock and returning; a call stopped between its two copies finishes, from*)
(* the buffer it finds, exactly as the whole call does from the buffer it  *)
(* found when it took the lock, so no other call's copies or updates came  *)
(* in between and no query ran in the middle of a two-segment copy.        *)
MutualExclusion ==
    /\ \A t, u \in Threads : Inside(t) /\ Inside(u) => t = u
    /\ \A t \in Threads :
        thread[t].pc = "second" =>
            LET k == thread[t].unit_count
            IN  IF thread[t].op = "insert"
                THEN insert_second(cb, thread[t].data, k)
                        = insert_units(thread[t].pre, thread[t].data, k).self
                ELSE LET r == extract_units(thread[t].pre, Block(k), k)
                     IN  extract_second(cb, thread[t].data, k)
                            = [self |-> r.self, data |-> r.data]

(* C13 witness: one thread is between the two copies of an insert while    *)
(* another waits for the lock to extract and a third call, if any, cannot  *)
(* be inside.                                                              *)
MutualExclusionWitness ==
    \E t, u \in Threads :
        /\ thread[t].pc = "second" /\ thread[t].op = "insert"
        /\ thread[u].pc = "lock" /\ thread[u].op = "extract"
        /\ m_buffer_lock = t

(* C14: a thread that is not inside a call does not hold the lock, whether *)
(* its last call succeeded or was rejected; the lock is free when no call  *)
(* is in progress, and whoever holds it is still inside its call.          *)
LockReleased ==
    /\ \A t \in Threads : ~Inside(t) => m_buffer_lock # t
    /\ (\A t \in Threads : ~Inside(t)) => m_buffer_lock = NoThread
    /\ m_buffer_lock # NoThread => Inside(m_buffer_lock)

(* C14 witness: a call on a buffer with storage was rejected and has       *)
(* returned false; the lock is free and another thread, which is waiting   *)
(* to extract, can take it.                                                *)
LockReleasedWitness ==
    \E t, u \in Threads :
        /\ thread[t].pc = "idle" /\ thread[t].ret = FALSE
        /\ thread[u].pc = "lock" /\ thread[u].op = "extract"
        /\ m_buffer_lock = NoThread
====
